---------------------------- MODULE Spec2Model ----------------------------
(***************************************************************************)
(* Model of src/2024-10_knight-moves-6.py (class PuzzleSolver).            *)
(*                                                                         *)
(* The grid, the knight deltas, the scoring fold, the iterative-deepening  *)
(* depth-first search and the weight sweep are transcribed from the        *)
(* source.  The numeric limits of the source (target 2024, depth range     *)
(* 4..11, weight ranges 20 / 30 / 50) make one run of solve() far too long *)
(* to enumerate, so the limits that only set the size of the search are    *)
(* named definitions with smaller values; the code around them is the      *)
(* same.                                                                   *)
(***************************************************************************)
EXTENDS Integers, Sequences, FiniteSets, TLC

(***************************************************************************)
(* Sizes.  Source values are given on the right.                           *)
(***************************************************************************)
target == 28            \* self.target = 2024          (line 6)
MinDepth == 3           \* range(4, 12)                (line 89)
MaxDepthStop == 5       \* range(4, 12)                (line 89)
AStop == 3              \* range(1, 20)                (line 108)
BStop == 5              \* range(A + 1, 30)            (line 113)
SumStop == 12           \* range(B + 1, 50 - A - B)    (line 117)
MaxCalls == 2           \* calls of calculate_score in SpecScore
MaxFoldLen == 4         \* longest path scored in SpecFold
MaxFmtLen == 2          \* longest path formatted in SpecFormat

GridSize == 6           \* range(6), 0 <= new_x < 6    (lines 24-29)

(***************************************************************************)
(* __init__ : the grid and the move table                                  *)
(***************************************************************************)
grid_values ==
    << <<"A", "B", "B", "C", "C", "C">>,
       <<"A", "B", "B", "C", "C", "C">>,
       <<"A", "A", "B", "B", "C", "C">>,
       <<"A", "A", "B", "B", "C", "C">>,
       <<"A", "A", "A", "B", "B", "C">>,
       <<"A", "A", "A", "B", "B", "C">> >>

\* grid_values[x][y] with the source's 0-based indices
GridAt(pos) == grid_values[pos[1] + 1][pos[2] + 1]

Positions == (0 .. GridSize - 1) \X (0 .. GridSize - 1)

knight_deltas ==
    << <<2, 1>>, <<2, -1>>, <<-2, 1>>, <<-2, -1>>,
       <<1, 2>>, <<1, -2>>, <<-1, 2>>, <<-1, -2>> >>

InBounds(p) == /\ 0 <= p[1] /\ p[1] < GridSize
               /\ 0 <= p[2] /\ p[2] < GridSize

\* the list `valid` built for cell (i, j), in the order of knight_deltas
ValidMoves(pos) ==
    LET cand == [k \in 1 .. Len(knight_deltas) |->
                    <<pos[1] + knight_deltas[k][1], pos[2] + knight_deltas[k][2]>>]
    IN  SelectSeq(cand, InBounds)

knight_moves == [pos \in Positions |-> ValidMoves(pos)]

\* Python's None; `if result:` is false for None and for an empty list alike
None == <<>>
Truthy(x) == x # <<>>

EmptyCache == [p \in {} |-> 0]

(***************************************************************************)
(* calculate_score                                                         *)
(***************************************************************************)
\* variant: the early exit returns the score from before the last step
RECURSIVE ScoreLoopStale(_, _, _, _)
ScoreLoopStale(path, vals, i, score) ==
    IF i > Len(path)
    THEN score
    ELSE LET curr_val == GridAt(path[i])
             prev_val == GridAt(path[i - 1])
             curr_num == vals[curr_val]
             s2 == IF curr_val = prev_val THEN score + curr_num
                                          ELSE score * curr_num
         IN  IF s2 > target THEN score
                            ELSE ScoreLoopStale(path, vals, i + 1, s2)

\* the loop of lines 42-55, entered at 1-based index i with running score
RECURSIVE ScoreLoop(_, _, _, _)
ScoreLoop(path, vals, i, score) ==
    IF i > Len(path)
    THEN score
    ELSE LET curr_val == GridAt(path[i])
             prev_val == GridAt(path[i - 1])
             curr_num == vals[curr_val]
             s2 == IF curr_val = prev_val THEN score + curr_num
                                          ELSE score * curr_num
         IN  IF s2 > target THEN s2
                            ELSE ScoreLoop(path, vals, i + 1, s2)

\* lines 40-58 on a cache miss: the value that is stored and returned
ComputeScore(path, vals) ==
    ScoreLoop(path, vals, 2, vals[GridAt(path[1])])

\* lines 36-58: the returned score and the cache afterwards
calculate_score(cache, path, vals) ==
    IF path \in DOMAIN cache
    THEN [ret |-> cache[path], cache |-> cache]
    ELSE LET s == ComputeScore(path, vals)
         IN  [ret |-> s, cache |-> (path :> s) @@ cache]

(***************************************************************************)
(* format_path / format_solution                                           *)
(***************************************************************************)
Letters == <<"a", "b", "c", "d", "e", "f", "g", "h", "i", "j", "k", "l", "m",
             "n", "o", "p", "q", "r", "s", "t", "u", "v", "w", "x", "y", "z">>
Digits == <<"0", "1", "2", "3", "4", "5", "6", "7", "8", "9">>

\* chr(n) for the lower-case letters
Chr(n) == Letters[n - 96]

\* str(n) of a non-negative integer
RECURSIVE Str(_)
Str(n) == IF n < 10 THEN Digits[n + 1]
                    ELSE Str(n \div 10) \o Digits[(n % 10) + 1]

\* variant: row and column exchanged
TokenSwapped(pos) == Chr(97 + pos[1]) \o Str(6 - pos[2])

\* line 99: f"{chr(97 + y)}{6 - x}" for x, y in path
Token(pos) == Chr(97 + pos[2]) \o Str(6 - pos[1])

RECURSIVE Join(_)
Join(toks) == IF Len(toks) = 0 THEN ""
              ELSE IF Len(toks) = 1 THEN toks[1]
              ELSE toks[1] \o "," \o Join(Tail(toks))

format_path(path) == Join([k \in 1 .. Len(path) |-> Token(path[k])])

format_solution(a, b, c, p1, p2) ==
    Str(a) \o "," \o Str(b) \o "," \o Str(c) \o ","
           \o format_path(p1) \o "," \o format_path(p2)

(***************************************************************************)
(* State                                                                   *)
(***************************************************************************)
VARIABLES
    pc,             \* position in solve / find_path / dfs
    A, B, C,        \* loop variables of solve
    curr_sum,
    values,         \* the dict passed to find_path
    best_sum,
    best_solution,
    score_cache,    \* self.score_cache
    call_site,      \* which find_path call of solve is running (1 or 2)
    start, end,     \* arguments of find_path
    max_depth,      \* loop variable of find_path
    path,           \* the list shared by all dfs frames
    visited,        \* the set shared by all dfs frames
    stack,          \* active dfs frames: pos, depth, neighbours consumed
    result,         \* value returned by the last dfs / find_path call
    score,          \* value returned by the last calculate_score call
    path1,
    output,         \* value returned by solve / by the function applied
    calls           \* number of calls made (SpecScore)

vars == <<pc, A, B, C, curr_sum, values, best_sum, best_solution, score_cache,
          call_site, start, end, max_depth, path, visited, stack, result,
          score, path1, output, calls>>

solveVars == <<A, B, C, curr_sum, values, best_sum, best_solution, path1>>
searchVars == <<call_site, start, end, max_depth, path, visited, stack, result,
                score>>

\* float('inf'): larger than every curr_sum the loops can form
Infinity == SumStop

Top == stack[Len(stack)]

\* variant: the depth test lets one more level through
DepthExceededLate(depth, md) == depth > md + 1

\* line 65: if depth > max_depth
DepthExceeded(depth, md) == depth > md

\* variant: an over-target score at the end cell is accepted
ReachedTargetOrMore(sc) == sc >= target

\* line 69: if score == self.target
ReachedTarget(sc) == sc = target

\* variant: a prefix that has just reached the target is pruned
AtOrOverTarget(sc) == sc >= target

\* line 74: if curr_score > self.target
OverTarget(sc) == sc > target

\* variant: the position stays marked when the search backtracks
UnmarkForgotten(vis, pos) == vis

\* line 84: visited.remove(next_pos)
Unmark(vis, pos) == vis \ {pos}

\* variant: the sweep stops trying triples after its first success
SkipAfterFirstSuccess(sum, best) == best < Infinity

\* variant: a triple whose sum equals the best sum is tried again
SkipTripleStrict(sum, best) == sum > best

\* line 119: if curr_sum >= best_sum: continue
SkipTriple(sum, best) == sum >= best

\* variant: the cache is kept when the weights change
ClearedNot(cache) == cache

\* line 125: self.score_cache.clear()
Cleared(cache) == EmptyCache
Pop(s) == SubSeq(s, 1, Len(s) - 1)

(***************************************************************************)
(* solve                                                                   *)
(***************************************************************************)
Init ==
    /\ pc = "forA"
    /\ A = 0 /\ B = 0 /\ C = 0
    /\ curr_sum = 0
    /\ values = [A |-> 0, B |-> 0, C |-> 0]
    /\ best_sum = Infinity
    /\ best_solution = None
    /\ score_cache = EmptyCache
    /\ call_site = 0
    /\ start = <<0, 0>> /\ end = <<0, 0>>
    /\ max_depth = 0
    /\ path = <<>>
    /\ visited = {}
    /\ stack = <<>>
    /\ result = None
    /\ score = 0
    /\ path1 = None
    /\ output = ""
    /\ calls = 0

\* enter find_path(s, e, values): the for loop of line 89 has not started
CallFindPath(site, s, e) ==
    /\ call_site' = site
    /\ start' = s
    /\ end' = e
    /\ max_depth' = MinDepth - 1
    /\ pc' = "find_path"

\* lines 108-111: next A, or the end of the sweep
ForA ==
    /\ pc = "forA"
    /\ IF A + 1 < AStop
       THEN /\ A' = A + 1
            /\ IF A' > target
               THEN pc' = "return" /\ B' = B
               ELSE pc' = "forB" /\ B' = A'
       ELSE /\ pc' = "return"
            /\ UNCHANGED <<A, B>>
    /\ UNCHANGED <<C, curr_sum, values, best_sum, best_solution, path1,
                   score_cache, searchVars, output, calls>>

\* lines 113-115: next B, or back to the A loop
ForB ==
    /\ pc = "forB"
    /\ IF B + 1 < BStop
       THEN /\ B' = B + 1
            /\ IF A * B' > target
               THEN pc' = "forA" /\ C' = C
               ELSE pc' = "forC" /\ C' = B'
       ELSE /\ pc' = "forA"
            /\ UNCHANGED <<B, C>>
    /\ UNCHANGED <<A, curr_sum, values, best_sum, best_solution, path1,
                   score_cache, searchVars, output, calls>>

\* lines 117-128: next C; skip it, or clear the cache and search path1
ForC ==
    /\ pc = "forC"
    /\ IF C + 1 < SumStop - A - B
       THEN /\ C' = C + 1
            /\ curr_sum' = A + B + C'
            /\ IF SkipTriple(curr_sum', best_sum)
               THEN /\ pc' = "forC"
                    /\ UNCHANGED <<values, score_cache, call_site, start, end,
                                   max_depth>>
               ELSE /\ values' = [A |-> A, B |-> B, C |-> C']
                    /\ score_cache' = Cleared(score_cache)
                    /\ CallFindPath(1, <<5, 0>>, <<0, 5>>)
       ELSE /\ pc' = "forB"
            /\ UNCHANGED <<C, curr_sum, values, score_cache, call_site, start,
                           end, max_depth>>
    /\ UNCHANGED <<A, B, best_sum, best_solution, path1, path, visited, stack,
                   result, score, output, calls>>

\* lines 128-132: path1 is back; give up on the triple or search path2
SolveAfterPath1 ==
    /\ pc = "solve_ret" /\ call_site = 1
    /\ path1' = result
    /\ IF ~Truthy(result)
       THEN /\ pc' = "forC"
            /\ UNCHANGED <<call_site, start, end, max_depth>>
       ELSE CallFindPath(2, <<0, 0>>, <<5, 5>>)
    /\ UNCHANGED <<A, B, C, curr_sum, values, best_sum, best_solution,
                   score_cache, path, visited, stack, result, score, output,
                   calls>>

\* lines 132-137: path2 is back; give up on the triple or record the best
SolveAfterPath2 ==
    /\ pc = "solve_ret" /\ call_site = 2
    /\ IF ~Truthy(result)
       THEN UNCHANGED <<best_sum, best_solution>>
       ELSE /\ best_sum' = curr_sum
            /\ best_solution' = <<A, B, C, path1, result>>
    /\ pc' = "forC"
    /\ UNCHANGED <<A, B, C, curr_sum, values, path1, score_cache, searchVars,
                   output, calls>>

\* line 144
SolveReturn ==
    /\ pc = "return"
    /\ output' = IF Truthy(best_solution)
                 THEN format_solution(best_solution[1], best_solution[2],
                                      best_solution[3], best_solution[4],
                                      best_solution[5])
                 ELSE "No solution found"
    /\ pc' = "done"
    /\ UNCHANGED <<solveVars, score_cache, searchVars, calls>>

(***************************************************************************)
(* find_path and its nested dfs                                            *)
(***************************************************************************)
\* lines 89-92 and 95: next depth bound and the root call, or return None
FindPathLoop ==
    /\ pc = "find_path"
    /\ IF max_depth + 1 < MaxDepthStop
       THEN /\ max_depth' = max_depth + 1
            /\ path' = <<start>>
            /\ visited' = {start}
            /\ stack' = <<[pos |-> start, depth |-> 0, i |-> 0]>>
            /\ pc' = "dfs"
            /\ UNCHANGED result
       ELSE /\ result' = None
            /\ pc' = "solve_ret"
            /\ UNCHANGED <<max_depth, path, visited, stack>>
    /\ UNCHANGED <<solveVars, score_cache, call_site, start, end, score, output,
                   calls>>

\* lines 65-75: the body of dfs before its for loop
DfsEnter ==
    /\ pc = "dfs"
    /\ IF DepthExceeded(Top.depth, max_depth)
       THEN /\ result' = None
            /\ stack' = Pop(stack)
            /\ pc' = "dfs_ret"
            /\ UNCHANGED <<score_cache, score>>
       ELSE LET sc == calculate_score(score_cache, path, values)
            IN  /\ score_cache' = sc.cache
                /\ score' = sc.ret
                /\ IF Top.pos = end
                   THEN /\ result' = IF ReachedTarget(sc.ret) THEN path
                                                               ELSE None
                        /\ stack' = Pop(stack)
                        /\ pc' = "dfs_ret"
                   ELSE IF OverTarget(sc.ret)
                        THEN /\ result' = None
                             /\ stack' = Pop(stack)
                             /\ pc' = "dfs_ret"
                        ELSE /\ pc' = "dfs_for"
                             /\ UNCHANGED <<result, stack>>
    /\ UNCHANGED <<solveVars, call_site, start, end, max_depth, path, visited,
                   output, calls>>

\* lines 77-81: take the next neighbour; call dfs on it unless visited
DfsForNext ==
    /\ pc = "dfs_for"
    /\ Top.i < Len(knight_moves[Top.pos])
    /\ LET next_pos == knight_moves[Top.pos][Top.i + 1]
           caller == [Top EXCEPT !.i = Top.i + 1]
       IN  IF next_pos \notin visited
           THEN /\ path' = Append(path, next_pos)
                /\ visited' = visited \cup {next_pos}
                /\ stack' = Append(Append(Pop(stack), caller),
                                   [pos |-> next_pos, depth |-> Top.depth + 1,
                                    i |-> 0])
                /\ pc' = "dfs"
           ELSE /\ stack' = Append(Pop(stack), caller)
                /\ pc' = "dfs_for"
                /\ UNCHANGED <<path, visited>>
    /\ UNCHANGED <<solveVars, score_cache, call_site, start, end, max_depth,
                   result, score, output, calls>>

\* line 86: the neighbours are exhausted
DfsForEnd ==
    /\ pc = "dfs_for"
    /\ Top.i >= Len(knight_moves[Top.pos])
    /\ result' = None
    /\ stack' = Pop(stack)
    /\ pc' = "dfs_ret"
    /\ UNCHANGED <<solveVars, score_cache, call_site, start, end, max_depth,
                   path, visited, score, output, calls>>

\* lines 82-85: a recursive call returned to the dfs frame that made it
DfsAfterCall ==
    /\ pc = "dfs_ret"
    /\ stack # <<>>
    /\ IF Truthy(result)
       THEN /\ stack' = Pop(stack)
            /\ pc' = "dfs_ret"
            /\ UNCHANGED <<path, visited>>
       ELSE LET next_pos == knight_moves[Top.pos][Top.i]
            IN  /\ visited' = Unmark(visited, next_pos)
                /\ path' = Pop(path)
                /\ pc' = "dfs_for"
                /\ UNCHANGED stack
    /\ UNCHANGED <<solveVars, score_cache, call_site, start, end, max_depth,
                   result, score, output, calls>>

\* lines 93-94: the root call returned to find_path
FindPathAfterDfs ==
    /\ pc = "dfs_ret"
    /\ stack = <<>>
    /\ pc' = IF Truthy(result) THEN "solve_ret" ELSE "find_path"
    /\ UNCHANGED <<solveVars, score_cache, searchVars, output, calls>>

Next ==
    \/ ForA
    \/ ForB
    \/ ForC
    \/ SolveAfterPath1
    \/ SolveAfterPath2
    \/ SolveReturn
    \/ FindPathLoop
    \/ DfsEnter
    \/ DfsForNext
    \/ DfsForEnd
    \/ DfsAfterCall
    \/ FindPathAfterDfs

Spec == Init /\ [][Next]_vars

(***************************************************************************)
(* find_path called on its own: the arguments are drawn from small sets,   *)
(* the cache is empty, and the run ends when find_path returns.            *)
(***************************************************************************)
FindPairs ==
    { << <<5, 0>>, <<0, 5>> >>, << <<0, 0>>, <<5, 5>> >>,
      << <<5, 0>>, <<0, 4>> >>, << <<5, 0>>, <<1, 5>> >>,
      << <<5, 0>>, <<5, 0>> >> }

FindWeights ==
    { [A |-> 1, B |-> 2, C |-> 7], [A |-> 2, B |-> 3, C |-> 4],
      [A |-> 1, B |-> 3, C |-> 4], [A |-> 2, B |-> 2, C |-> 2],
      [A |-> 7, B |-> 2, C |-> 1], [A |-> target, B |-> 1, C |-> 1] }

InitFind ==
    /\ pc = "find_path"
    /\ A = 0 /\ B = 0 /\ C = 0
    /\ curr_sum = 0
    /\ values \in FindWeights
    /\ best_sum = Infinity
    /\ best_solution = None
    /\ score_cache = EmptyCache
    /\ call_site = 1
    /\ \E pr \in FindPairs : start = pr[1] /\ end = pr[2]
    /\ max_depth = MinDepth - 1
    /\ path = <<>>
    /\ visited = {}
    /\ stack = <<>>
    /\ result = None
    /\ score = 0
    /\ path1 = None
    /\ output = ""
    /\ calls = 0

NextFind ==
    \/ FindPathLoop
    \/ DfsEnter
    \/ DfsForNext
    \/ DfsForEnd
    \/ DfsAfterCall
    \/ FindPathAfterDfs

SpecFind == InitFind /\ [][NextFind]_vars

\* the variables that only solve and find_path use, at rest
Idle ==
    /\ A = 0 /\ B = 0 /\ C = 0
    /\ curr_sum = 0
    /\ best_sum = Infinity
    /\ best_solution = None
    /\ call_site = 0
    /\ start = <<0, 0>> /\ end = <<0, 0>>
    /\ max_depth = 0
    /\ visited = {}
    /\ stack = <<>>
    /\ result = None
    /\ path1 = None

idleVars == <<A, B, C, curr_sum, best_sum, best_solution, call_site, start, end,
              max_depth, visited, stack, result, path1>>

\* all sequences over S of length lo .. hi
SeqsOver(S, lo, hi) == UNION {[1 .. n -> S] : n \in lo .. hi}

(***************************************************************************)
(* calculate_score called repeatedly on one solver object, each time with  *)
(* any path and any weights; the cache carries over between calls.         *)
(***************************************************************************)
ScoreCells == {<<5, 0>>, <<1, 2>>, <<0, 5>>}
ScorePaths == SeqsOver(ScoreCells, 1, 2)
ScoreWeights == [A : {1, 2}, B : {1, 2}, C : {1, 2}]

InitScore ==
    /\ Idle
    /\ pc = "score"
    /\ values = [A |-> 0, B |-> 0, C |-> 0]
    /\ score_cache = EmptyCache
    /\ path = <<>>
    /\ score = 0
    /\ output = ""
    /\ calls = 0

CallCalculateScore ==
    /\ pc = "score"
    /\ calls < MaxCalls
    /\ \E p \in ScorePaths, v \in ScoreWeights :
          LET sc == calculate_score(score_cache, p, v)
          IN  /\ path' = p
              /\ values' = v
              /\ score' = sc.ret
              /\ score_cache' = sc.cache
    /\ calls' = calls + 1
    /\ UNCHANGED <<pc, idleVars, output>>

SpecScore == InitScore /\ [][CallCalculateScore]_vars

(***************************************************************************)
(* calculate_score applied once, on a fresh solver, to a path and weights  *)
(* drawn from bounded sets.                                                *)
(***************************************************************************)
FoldCells == {<<5, 0>>, <<3, 1>>, <<1, 2>>, <<2, 4>>, <<0, 5>>}
FoldPaths == SeqsOver(FoldCells, 1, MaxFoldLen)
FoldWeights == [A : {1, 2, 7}, B : {1, 2, 7}, C : {1, 2, 7}]

InitFold ==
    /\ Idle
    /\ pc = "fold"
    /\ values \in FoldWeights
    /\ score_cache = EmptyCache
    /\ path \in FoldPaths
    /\ score = 0
    /\ output = ""
    /\ calls = 0

ApplyCalculateScore ==
    /\ pc = "fold"
    /\ LET sc == calculate_score(score_cache, path, values)
       IN  /\ score' = sc.ret
           /\ score_cache' = sc.cache
    /\ pc' = "folded"
    /\ UNCHANGED <<idleVars, values, path, output, calls>>

SpecFold == InitFold /\ [][ApplyCalculateScore]_vars

(***************************************************************************)
(* format_path applied to a path drawn from a bounded set.                 *)
(***************************************************************************)
FormatPaths == SeqsOver(Positions, 0, MaxFmtLen)

InitFormat ==
    /\ Idle
    /\ pc = "format"
    /\ values = [A |-> 0, B |-> 0, C |-> 0]
    /\ score_cache = EmptyCache
    /\ path \in FormatPaths
    /\ score = 0
    /\ output = ""
    /\ calls = 0

ApplyFormatPath ==
    /\ pc = "format"
    /\ output' = format_path(path)
    /\ pc' = "formatted"
    /\ UNCHANGED <<idleVars, values, score_cache, path, score, calls>>

SpecFormat == InitFormat /\ [][ApplyFormatPath]_vars


(***************************************************************************)
(* Definitions used to state the properties                                *)
(***************************************************************************)
Range(seq) == {seq[k] : k \in 1 .. Len(seq)}
Last(seq) == seq[Len(seq)]
Abs(n) == IF n < 0 THEN -n ELSE n

\* an edge of MoveGraph: a knight move between two cells of the grid
IsKnightMove(p, q) ==
    /\ p \in Positions /\ q \in Positions
    /\ {Abs(p[1] - q[1]), Abs(p[2] - q[2])} = {1, 2}

\* the fold of section 4.2 carried to the end of the path (no early exit)
RECURSIVE FullScoreFrom(_, _, _, _)
FullScoreFrom(p, vals, i, acc) ==
    IF i > Len(p) THEN acc
    ELSE FullScoreFrom(p, vals, i + 1,
                       IF GridAt(p[i]) = GridAt(p[i - 1])
                       THEN acc + vals[GridAt(p[i])]
                       ELSE acc * vals[GridAt(p[i])])

FullScore(p, vals) == FullScoreFrom(p, vals, 2, vals[GridAt(p[1])])

IsSimple(p) == Cardinality(Range(p)) = Len(p)

IsKnightPath(p) == \A k \in 1 .. Len(p) - 1 : IsKnightMove(p[k], p[k + 1])

\* the program is inside find_path (its loop, a dfs frame, or a dfs return)
InFindPath == pc \in {"find_path", "dfs", "dfs_for", "dfs_ret"}

\* a dfs call is active, or has just returned to its caller
InDfs == pc \in {"dfs", "dfs_for", "dfs_ret"}

\* find_path has just returned to solve
FindPathReturned == pc = "solve_ret"

\* the deepest bound find_path tries (11 in the source)
LastDepth == MaxDepthStop - 1

RECURSIVE HasValidPath(_, _, _, _)
HasValidPath(p, vals, e, left) ==
    IF Last(p) = e
    THEN FullScore(p, vals) = target
    ELSE /\ left > 0
         /\ \E q \in Positions :
               /\ IsKnightMove(Last(p), q)
               /\ q \notin Range(p)
               /\ HasValidPath(Append(p, q), vals, e, left - 1)

NotFoundIffNoValidPath ==
    (FindPathReturned /\ start # end) =>
        ((result = None) <=> ~HasValidPath(<<start>>, values, end, LastDepth))

\* find_path gave up after the search pruned at least one over-target prefix
NotFoundWitness ==
    /\ FindPathReturned /\ result = None /\ start # end
    /\ \E p \in DOMAIN score_cache : score_cache[p] > target

\* find_path succeeded only at its last depth bound
FoundDeepWitness ==
    /\ FindPathReturned /\ Truthy(result) /\ max_depth = LastDepth


(***************************************************************************)
(* C4: during solve the score cache only holds scores computed under the   *)
(* weights now in use.  Every step that changes the weights leaves the     *)
(* cache empty; every other change of the cache adds the score of the      *)
(* current path under the weights in use; a score handed back by           *)
(* calculate_score is the score of the current path under those weights;   *)
(* and each time find_path returns, every entry of the cache is the score  *)
(* of its path under the weights in use.                                   *)
(***************************************************************************)
EntriesOfActiveWeights ==
    \A p \in DOMAIN score_cache : score_cache[p] = ComputeScore(p, values)

CacheOfActiveWeights ==
    [][ /\ values' # values => score_cache' = EmptyCache
        /\ \/ score_cache' = score_cache
           \/ score_cache' = EmptyCache
           \/ score_cache' = (path' :> ComputeScore(path', values')) @@ score_cache
        /\ (pc' = "dfs_for" /\ Top'.i = 0) => score' = ComputeScore(path', values')
        /\ FindPathReturned' => EntriesOfActiveWeights' ]_vars

\* second search of a later triple: the cache was cleared and refilled
CacheRefilledWitness ==
    /\ pc = "dfs_for" /\ Top.i = 0
    /\ call_site = 2
    /\ values.C > 3
    /\ Cardinality(DOMAIN score_cache) > 1

(***************************************************************************)
(* C8 as stated: the depth of every active dfs call, and the number of     *)
(* moves on the path buffer, never exceed max_depth (at most LastDepth).    *)
(***************************************************************************)
DepthWithinMaxDepth ==
    InDfs =>
        /\ \A k \in 1 .. Len(stack) : stack[k].depth <= max_depth
        /\ Len(path) - 1 <= max_depth
        /\ max_depth <= LastDepth

(***************************************************************************)
(* C8 amended: the depth of an active dfs call and the number of moves on  *)
(* the path buffer never exceed max_depth + 1 (at most LastDepth + 1); a   *)
(* call deeper than max_depth is the newest one, still at its depth test.  *)
(***************************************************************************)
DepthWithinMaxDepthPlusOne ==
    InDfs =>
        /\ \A k \in 1 .. Len(stack) :
              /\ stack[k].depth <= max_depth + 1
              /\ stack[k].depth > max_depth => (k = Len(stack) /\ pc = "dfs")
        /\ Len(path) - 1 <= max_depth + 1
        /\ max_depth <= LastDepth

\* a dfs call one level below the last depth bound is active
OverDepthCallWitness ==
    /\ pc = "dfs"
    /\ max_depth = LastDepth
    /\ Top.depth = max_depth + 1
    /\ Len(path) - 1 = max_depth + 1

(***************************************************************************)
(* C9: a weight triple handed to find_path has 1 <= A < B < C, sum at most *)
(* SumStop - 1 (49 in the source) and sum below the best sum recorded at   *)
(* that moment; whenever the recorded best sum changes it decreases.       *)
(***************************************************************************)
TripleInOrder ==
    /\ values.A >= 1
    /\ values.A < values.B
    /\ values.B < values.C
    /\ values.A + values.B + values.C <= SumStop - 1
    /\ values.A + values.B + values.C < best_sum

TriedTriplesDecrease ==
    [][ /\ InFindPath' => TripleInOrder'
        /\ best_sum' # best_sum => best_sum' < best_sum ]_vars

\* a triple is being searched after an earlier one was recorded as best
TriedAfterBestWitness ==
    /\ InFindPath
    /\ call_site = 2
    /\ best_sum < Infinity

(***************************************************************************)
(* C10: a dfs call that returns no result leaves the path buffer and the   *)
(* visited set as they were on its entry: the buffer is the positions of   *)
(* the active frames (followed by the position of the call that has just   *)
(* failed, until its caller removes it), visited is the set of positions   *)
(* on the buffer, and after a failed depth bound they are [start], {start}.*)
(***************************************************************************)
FramePositions == [k \in 1 .. Len(stack) |-> stack[k].pos]

BacktrackRestores ==
    InDfs =>
        /\ visited = Range(path)
        /\ IsSimple(path)
        /\ \A k \in 1 .. Len(stack) : stack[k].depth = k - 1
        /\ (pc \in {"dfs", "dfs_for"}) => path = FramePositions
        /\ (pc = "dfs_ret" /\ result = None) =>
              /\ Len(path) = Len(stack) + 1
              /\ SubSeq(path, 1, Len(stack)) = FramePositions
              /\ stack # <<>> => Last(path) = knight_moves[Top.pos][Top.i]
              /\ stack = <<>> => (path = <<start>> /\ visited = {start})

\* a depth bound above the first has failed after calls were backtracked
FailedBoundWitness ==
    /\ pc = "dfs_ret" /\ result = None /\ stack = <<>>
    /\ max_depth > MinDepth
    /\ Cardinality(DOMAIN score_cache) > 1


(***************************************************************************)
(* find_path as a function of its arguments and of the cache it starts     *)
(* with: the value it returns and the cache it leaves.  The list and the   *)
(* set that the source shares between frames are passed by value here.     *)
(***************************************************************************)
RECURSIVE dfs(_, _, _, _, _, _, _, _), dfs_for(_, _, _, _, _, _, _, _, _)
\* lines 65-75
dfs(cache, vals, e, pos, pth, vis, depth, md) ==
    IF DepthExceeded(depth, md)
    THEN [res |-> None, cache |-> cache]
    ELSE LET sc == calculate_score(cache, pth, vals)
         IN  IF pos = e
             THEN [res |-> IF ReachedTarget(sc.ret) THEN pth ELSE None,
                   cache |-> sc.cache]
             ELSE IF OverTarget(sc.ret)
                  THEN [res |-> None, cache |-> sc.cache]
                  ELSE dfs_for(sc.cache, vals, e, pos, pth, vis, depth, md, 1)

\* lines 77-86, from the k-th neighbour on
dfs_for(cache, vals, e, pos, pth, vis, depth, md, k) ==
    IF k > Len(knight_moves[pos])
    THEN [res |-> None, cache |-> cache]
    ELSE LET next_pos == knight_moves[pos][k]
         IN  IF next_pos \in vis
             THEN dfs_for(cache, vals, e, pos, pth, vis, depth, md, k + 1)
             ELSE LET r == dfs(cache, vals, e, next_pos, Append(pth, next_pos),
                               vis \cup {next_pos}, depth + 1, md)
                  IN  IF Truthy(r.res)
                      THEN r
                      ELSE dfs_for(r.cache, vals, e, pos, pth, vis, depth, md,
                                   k + 1)

\* lines 89-95, from depth bound md on
RECURSIVE find_path_from(_, _, _, _, _)
find_path_from(cache, s, e, vals, md) ==
    IF md >= MaxDepthStop
    THEN [res |-> None, cache |-> cache]
    ELSE LET r == dfs(cache, vals, e, s, <<s>>, {s}, 0, md)
         IN  IF Truthy(r.res) THEN r
             ELSE find_path_from(r.cache, s, e, vals, md + 1)

find_path(cache, s, e, vals) == find_path_from(cache, s, e, vals, MinDepth)

(***************************************************************************)
(* C2: when solve returns, the triple it returns has the least A + B + C   *)
(* among the triples of its enumeration space for which both searches      *)
(* succeed (run as solve runs them: cache cleared, then a1-f6, then a6-f1) *)
(* and it returns "No solution found" exactly when no triple of the space  *)
(* makes both succeed.                                                     *)
(***************************************************************************)
TripleSpace ==
    {t \in (1 .. AStop - 1) \X (1 .. BStop - 1) \X (1 .. SumStop) :
        /\ t[2] \in t[1] + 1 .. BStop - 1
        /\ t[3] \in t[2] + 1 .. SumStop - 1 - t[1] - t[2]}

BothSucceed(t) ==
    LET vals == [A |-> t[1], B |-> t[2], C |-> t[3]]
        r1 == find_path(EmptyCache, <<5, 0>>, <<0, 5>>, vals)
    IN  /\ Truthy(r1.res)
        /\ Truthy(find_path(r1.cache, <<0, 0>>, <<5, 5>>, vals).res)

TripleSum(t) == t[1] + t[2] + t[3]

SolveReturnsMinimum ==
    (pc = "done") =>
        IF output = "No solution found"
        THEN \A t \in TripleSpace : ~BothSucceed(t)
        ELSE LET best == <<best_solution[1], best_solution[2], best_solution[3]>>
             IN  /\ best \in TripleSpace
                 /\ BothSucceed(best)
                 /\ \A t \in TripleSpace :
                       TripleSum(t) < TripleSum(best) => ~BothSucceed(t)
                 /\ output = format_solution(best[1], best[2], best[3],
                                             best_solution[4], best_solution[5])

\* solve returned a triple although an earlier triple of the sweep, with a
\* larger sum, also succeeds
LaterSmallerTripleWitness ==
    /\ pc = "done"
    /\ Truthy(best_solution)
    /\ \E t \in TripleSpace :
          /\ TripleSum(t) > best_sum
          /\ \/ t[1] < best_solution[1]
             \/ t[1] = best_solution[1] /\ t[2] < best_solution[2]
          /\ BothSucceed(t)


(***************************************************************************)
(* C5 as stated: whatever calls came before, calculate_score returns for   *)
(* (path, weights) the value it returns with an empty cache.               *)
(***************************************************************************)
ScoreIndependentOfCache ==
    (pc = "score" /\ calls > 0) =>
        score = calculate_score(EmptyCache, path, values).ret

(***************************************************************************)
(* C6: with positive weights, once the score of a prefix exceeds the       *)
(* target the score of every longer prefix does too; the value returned    *)
(* by calculate_score is above the target exactly when the fully           *)
(* accumulated score is, and equals it otherwise.                          *)
(***************************************************************************)
Prefix(p, k) == SubSeq(p, 1, k)

ScoreMonotone ==
    (pc = "folded") =>
        /\ \A k \in 1 .. Len(path) : \A k2 \in k + 1 .. Len(path) :
              /\ FullScore(Prefix(path, k), values) > target
                    => FullScore(Prefix(path, k2), values) > target
              /\ ComputeScore(Prefix(path, k), values) > target
                    => ComputeScore(Prefix(path, k2), values) > target
        /\ (score > target) <=> (FullScore(path, values) > target)
        /\ FullScore(path, values) <= target => score = FullScore(path, values)

\* the early exit was taken before the end of the path: the value returned
\* differs from the fully accumulated score
EarlyExitWitness ==
    /\ pc = "folded"
    /\ score > target
    /\ score # FullScore(path, values)
    /\ FullScore(Prefix(path, Len(path) - 1), values) > target

(***************************************************************************)
(* C7: format_path writes each position (row, col) as the col-th letter    *)
(* from 'a' followed by 6 - row, in path order, joined by commas.          *)
(***************************************************************************)
ColumnLetter == [c \in 0 .. 5 |-> <<"a", "b", "c", "d", "e", "f">>[c + 1]]
RankDigit == [r \in 0 .. 5 |-> <<"6", "5", "4", "3", "2", "1">>[r + 1]]

RECURSIVE Notation(_, _)
Notation(p, k) ==
    IF k = 0 THEN ""
    ELSE Notation(p, k - 1) \o (IF k > 1 THEN "," ELSE "")
             \o ColumnLetter[p[k][2]] \o RankDigit[p[k][1]]

FormatMatchesNotation ==
    (pc = "formatted") =>
        /\ output = Notation(path, Len(path))
        /\ path = << <<5, 0>> >> => output = "a1"
        /\ path = << <<0, 5>> >> => output = "f6"
        /\ path = << <<5, 0>>, <<3, 1>> >> => output = "a1,b3"

\* the two-position example of the claim has been formatted
FormatExampleWitness ==
    /\ pc = "formatted"
    /\ path = << <<5, 0>>, <<3, 1>> >>
    /\ output = "a1,b3"

=============================================================================
